---- MODULE Spec2Model ----
(***************************************************************************)
(* Model of dashboard.py: one run of the Streamlit script over one input   *)
(* file.  The script is straight-line code; every stage of it is one       *)
(* action, and `pc' names the stage that runs next.                        *)
(*                                                                         *)
(* Representation of values                                                *)
(*   - a text cell of the CSV is a sequence of one-character strings;      *)
(*     the missing cell (pandas NaN / None) is the empty sequence, which   *)
(*     read_csv never produces for text (an empty cell is read as NaN);    *)
(*   - a float that may be NaN is NaN == <<>> or <<v>>;                    *)
(*   - Capacity_Mtpa is held in fixed point, in units of 1/UnitsPerMtpa    *)
(*     Mtpa (0.0001 Mtpa = 0.1 ttpa), so that every capacity drawn below   *)
(*     is an exact integer; 2 decimals of Mtpa are Cent units;             *)
(*   - Owner, Country/Area_x and Region are TLA+ strings, the missing      *)
(*     Region being NoValue.                                               *)
(***************************************************************************)
EXTENDS Integers, Sequences, FiniteSets, TLC

VARIABLES file, pc, run, exception, shown, df,
          min_capacity, max_capacity,
          selected_companies, selected_countries, capacity_range,
          df_filtered,
          total_plants, total_capacity, avg_capacity, unique_countries,
          map_data

vars == <<file, pc, run, exception, shown, df, min_capacity, max_capacity,
          selected_companies, selected_countries, capacity_range, df_filtered,
          total_plants, total_capacity, avg_capacity, unique_countries,
          map_data>>

-----------------------------------------------------------------------------
(* Bounds and program constants *)

MaxRows == 3

TtpaPerMtpa == 1000

UnitsPerMtpa == 10 * TtpaPerMtpa

Cent == UnitsPerMtpa \div 100

RadiusScale == 20000

RadiusLower == 5000

RadiusUpper == 80000

NaN == <<>>

NoValue == "NaN"

-----------------------------------------------------------------------------
(* Text cells *)

Str1000 == <<"1", "0", "0", "0">>

Str1234 == <<"1", "2", "3", "4">>

Str10000 == <<"1", "0", "0", "0", "0">>

StrTenth == <<"0", ".", "1">>

StrUnknown == <<"u", "n", "k", "n", "o", "w", "n">>

StrLatLon == <<"3", "6", ".", "7", ",", " ", "6", ".", "2">>

StrOneTwo == <<"1", ",", " ", "2">>

StrBad == <<"b", "a", "d">>

StrOneB == <<"1", ",", " ", "b">>

StrThree == <<"1", ",", " ", "2", ",", " ", "3">>

Separator == <<",", " ">>

Digits == {"0", "1", "2", "3", "4", "5", "6", "7", "8", "9"}

DigitValue(c) ==
  CASE c = "0" -> 0 [] c = "1" -> 1 [] c = "2" -> 2 [] c = "3" -> 3
    [] c = "4" -> 4 [] c = "5" -> 5 [] c = "6" -> 6 [] c = "7" -> 7
    [] c = "8" -> 8 [] c = "9" -> 9

RECURSIVE DigitsValue(_)
DigitsValue(s) ==
  IF s = <<>> THEN 0
  ELSE 10 * DigitsValue(SubSeq(s, 1, Len(s) - 1)) + DigitValue(s[Len(s)])

AllDigits(s) == \A i \in 1..Len(s) : s[i] \in Digits

RECURSIVE Pow10(_)
Pow10(n) == IF n = 0 THEN 1 ELSE 10 * Pow10(n - 1)

(* pd.to_numeric(errors='coerce') on one cell: a signed decimal literal    *)
(* parses to <<[m, d]>>, the number m / 10^d; anything else, and the       *)
(* missing cell, is NaN.  (Exponents, "inf" and surrounding blanks are     *)
(* not among the cells drawn below.)                                       *)
ToNumeric(s) ==
  IF s = <<>> THEN NaN
  ELSE
    LET signed == s[1] \in {"-", "+"}
        body == IF signed THEN SubSeq(s, 2, Len(s)) ELSE s
        dots == {i \in 1..Len(body) : body[i] = "."}
        p == IF dots = {} THEN Len(body) + 1 ELSE CHOOSE i \in dots : \A j \in dots : i <= j
        whole == SubSeq(body, 1, p - 1)
        frac == SubSeq(body, p + 1, Len(body))
        sign == IF signed /\ s[1] = "-" THEN -1 ELSE 1
    IN IF /\ Cardinality(dots) <= 1
          /\ AllDigits(whole) /\ AllDigits(frac)
          /\ Len(whole) + Len(frac) > 0
       THEN <<[m |-> sign * DigitsValue(whole \o frac), d |-> Len(frac)]>>
       ELSE NaN

(* Series.str.split(', ') on one string: the parts between the             *)
(* occurrences of the separator.                                           *)
RECURSIVE Split(_, _)
Split(s, sep) ==
  LET hits == {i \in 1..(Len(s) - Len(sep) + 1) : SubSeq(s, i, i + Len(sep) - 1) = sep}
  IN IF hits = {} THEN <<s>>
     ELSE LET i == CHOOSE h \in hits : \A k \in hits : h <= k
          IN <<SubSeq(s, 1, i - 1)>> \o Split(SubSeq(s, i + Len(sep), Len(s)), sep)

-----------------------------------------------------------------------------
(* Data loading & cleaning *)

IsNaN(x) == x = NaN

(* to_numeric(ttpa) / 1000, in capacity units.  The capacity cells drawn   *)
(* below carry at most one decimal, so the division is exact.              *)
CapacityMtpa(cell) ==
  LET n == ToNumeric(cell)
  IN IF IsNaN(n) THEN NaN
     ELSE <<(n[1].m * UnitsPerMtpa) \div (TtpaPerMtpa * Pow10(n[1].d))>>

Max(S) == CHOOSE x \in S : \A y \in S : y <= x

(* Number of columns of str.split(', ', expand=True): the largest number   *)
(* of parts of a row, 0 for a table without rows.                          *)
ExpandWidth(rows) ==
  LET widths == {Len(Split(rows[i].coordinates, Separator)) :
                   i \in {j \in 1..Len(rows) : rows[j].coordinates # <<>>}}
  IN IF widths = {} THEN 0 ELSE Max(widths)

(* Column k of the expanded split for one row: None when the cell is       *)
(* missing or has fewer than k parts.                                      *)
ExpandColumn(cell, k) ==
  IF cell = <<>> THEN <<>>
  ELSE LET parts == Split(cell, Separator)
       IN IF k <= Len(parts) THEN parts[k] ELSE <<>>

CleanRow(r) ==
  [owner |-> r.owner, country |-> r.country, region |-> r.region,
   capacity_ttpa |-> r.capacity_ttpa, coordinates |-> r.coordinates,
   Capacity_Mtpa |-> CapacityMtpa(r.capacity_ttpa),
   lat |-> ToNumeric(ExpandColumn(r.coordinates, 1)),
   Longitude |-> ToNumeric(ExpandColumn(r.coordinates, 2))]

HasCoordinates(r) == ~IsNaN(r.lat) /\ ~IsNaN(r.Longitude)

(* The exception load_and_clean_data raises on a readable table, "" when   *)
(* it returns.  A Coordinates column without any string is read as a       *)
(* float column, on which .str raises AttributeError; assigning the        *)
(* expanded split to the two columns lat, Longitude raises ValueError      *)
(* unless it has exactly two columns.                                      *)
LoadError(rows) ==
  IF rows # <<>> /\ \A i \in 1..Len(rows) : rows[i].coordinates = <<>>
    THEN "AttributeError"
  ELSE IF ExpandWidth(rows) # 2 THEN "ValueError"
  ELSE ""

load_and_clean_data(rows) ==
  LET cleaned == [i \in 1..Len(rows) |-> CleanRow(rows[i])]
  IN SelectSeq(cleaned, HasCoordinates)

(* try: df = load_and_clean_data(DATA_FILE)                                *)
(* except FileNotFoundError: st.error(...); st.stop()                      *)
LoadData ==
  /\ pc = "load" /\ run = "running"
  /\ IF file.status = "missing"
       THEN /\ shown' = shown \cup {"error_file"}
            /\ run' = "stopped"
            /\ UNCHANGED <<pc, exception, df>>
     ELSE IF file.status = "unreadable"
       THEN /\ run' = "crashed"
            /\ exception' = "PermissionError"
            /\ UNCHANGED <<pc, shown, df>>
     ELSE IF LoadError(file.rows) # ""
       THEN /\ run' = "crashed"
            /\ exception' = LoadError(file.rows)
            /\ UNCHANGED <<pc, shown, df>>
     ELSE /\ df' = load_and_clean_data(file.rows)
          /\ pc' = "controls"
          /\ UNCHANGED <<run, exception, shown>>
  /\ UNCHANGED <<file, min_capacity, max_capacity, selected_companies,
                 selected_countries, capacity_range, df_filtered, total_plants,
                 total_capacity, avg_capacity, unique_countries, map_data>>

-----------------------------------------------------------------------------
(* Filters *)

Min(S) == CHOOSE x \in S : \A y \in S : x <= y

(* round(2) of the ratio num / den of capacity units: the nearest whole    *)
(* number of Cents, the even one on a tie.  (On binary floats a decimal    *)
(* tie such as 1.005 is not exact and may fall either way; none of the     *)
(* capacities drawn below rounds from a tie.)                              *)
Round2Ratio(num, den) ==
  LET step == den * Cent
      q == num \div step
      r == num - q * step
  IN IF 2 * r < step THEN q * Cent
     ELSE IF 2 * r > step THEN (q + 1) * Cent
     ELSE IF q % 2 = 0 THEN q * Cent ELSE (q + 1) * Cent

Round2(x) == Round2Ratio(x, 1)

(* df[COL].dropna() as the sequence of its values *)
RECURSIVE DropNa(_)
DropNa(col) ==
  IF col = <<>> THEN <<>>
  ELSE IF IsNaN(Head(col)) THEN DropNa(Tail(col))
  ELSE <<Head(col)[1]>> \o DropNa(Tail(col))

CapacityColumn(t) == [i \in 1..Len(t) |-> t[i].Capacity_Mtpa]

Values(s) == {s[i] : i \in 1..Len(s)}

SliderMin_Unrounded(t) == Min(Values(DropNa(CapacityColumn(t))))

SliderMin(t) == Round2(Min(Values(DropNa(CapacityColumn(t)))))

SliderMax(t) == Round2(Max(Values(DropNa(CapacityColumn(t)))))

(* Positions the user can drag a slider handle to, besides its two ends *)
SliderStops == {UnitsPerMtpa, 5 * UnitsPerMtpa}

SliderChoices(lo, hi) ==
  LET points == {lo, hi} \cup {s \in SliderStops : lo < s /\ s < hi}
  IN {<<a, b>> : a \in points, b \in points} \cap {p \in points \X points : p[1] <= p[2]}

Filters ==
  /\ pc = "controls" /\ run = "running"
  /\ selected_companies' \in SUBSET {df[i].owner : i \in 1..Len(df)}
  /\ selected_countries' \in SUBSET {df[i].country : i \in 1..Len(df)}
  /\ IF DropNa(CapacityColumn(df)) # <<>>
       THEN /\ min_capacity' = <<SliderMin(df)>>
            /\ max_capacity' = <<SliderMax(df)>>
            /\ capacity_range' \in SliderChoices(SliderMin(df), SliderMax(df))
            /\ shown' = shown \cup {"filters"}
       ELSE /\ capacity_range' = <<0, 0>>
            /\ shown' = shown \cup {"filters", "warning_capacity"}
            /\ UNCHANGED <<min_capacity, max_capacity>>
  /\ pc' = "filter"
  /\ UNCHANGED <<file, run, exception, df, df_filtered, total_plants,
                 total_capacity, avg_capacity, unique_countries, map_data>>

CapacityMask_Exclusive(r, range) ==
  \/ IsNaN(r.Capacity_Mtpa)
  \/ /\ r.Capacity_Mtpa[1] > range[1]
     /\ r.Capacity_Mtpa[1] < range[2]

(* df_filtered[COL_CAPACITY_MTPA].isnull() | ((... >= range[0]) & (... <= range[1])) *)
CapacityMask(r, range) ==
  \/ IsNaN(r.Capacity_Mtpa)
  \/ /\ r.Capacity_Mtpa[1] >= range[1]
     /\ r.Capacity_Mtpa[1] <= range[2]

ApplyFilterSteps(t, companies, countries, range) ==
  LET InCompanies(r) == r.owner \in companies
      InCountries(r) == r.country \in countries
      InRange(r) == CapacityMask(r, range)
      t1 == IF companies # {} THEN SelectSeq(t, InCompanies) ELSE t
      t2 == IF countries # {} THEN SelectSeq(t1, InCountries) ELSE t1
  IN SelectSeq(t2, InRange)

StopsOnEmpty_Never(t) == FALSE

(* Whether the script stops on this filtered table (df_filtered.empty) *)
StopsOnEmpty(t) == t = <<>>

ApplyFilters ==
  /\ pc = "filter" /\ run = "running"
  /\ df_filtered' = ApplyFilterSteps(df, selected_companies, selected_countries,
                                     capacity_range)
  /\ IF StopsOnEmpty(df_filtered')
       THEN /\ shown' = shown \cup {"error_empty"}
            /\ run' = "stopped"
            /\ UNCHANGED pc
       ELSE /\ pc' = "kpi"
            /\ UNCHANGED <<shown, run>>
  /\ UNCHANGED <<file, exception, df, min_capacity, max_capacity,
                 selected_companies, selected_countries, capacity_range,
                 total_plants, total_capacity, avg_capacity, unique_countries,
                 map_data>>

-----------------------------------------------------------------------------
(* KPI metrics *)

RECURSIVE SumSeq(_)
SumSeq(s) == IF s = <<>> THEN 0 ELSE Head(s) + SumSeq(Tail(s))

(* df_filtered[COL_CAPACITY_MTPA].sum().round(2): NaN is skipped *)
KpiTotalCapacity(t) == <<Round2(SumSeq(DropNa(CapacityColumn(t))))>>

KpiAvgCapacity_OverAllRows(t) ==
  LET present == DropNa(CapacityColumn(t))
  IN IF Len(t) > 0 THEN <<Round2Ratio(SumSeq(present), Len(t))>> ELSE <<0>>

(* df_filtered[COL_CAPACITY_MTPA].mean().round(2) if total_plants > 0 else 0: *)
(* the mean skips NaN and is NaN when nothing is left                      *)
KpiAvgCapacity(t) ==
  LET present == DropNa(CapacityColumn(t))
  IN IF Len(t) > 0
       THEN IF present = <<>> THEN NaN
            ELSE <<Round2Ratio(SumSeq(present), Len(present))>>
     ELSE <<0>>

Kpis ==
  /\ pc = "kpi" /\ run = "running"
  /\ total_plants' = Len(df_filtered)
  /\ total_capacity' = KpiTotalCapacity(df_filtered)
  /\ avg_capacity' = KpiAvgCapacity(df_filtered)
  /\ unique_countries' = Cardinality({df_filtered[i].country : i \in 1..Len(df_filtered)})
  /\ shown' = shown \cup {"metrics"}
  /\ pc' = "map"
  /\ UNCHANGED <<file, run, exception, df, min_capacity, max_capacity,
                 selected_companies, selected_countries, capacity_range,
                 df_filtered, map_data>>

-----------------------------------------------------------------------------
(* Interactive map *)

Radius_NoFloor(capacity) ==
  LET scaled == (capacity * RadiusScale) \div UnitsPerMtpa
  IN IF scaled > RadiusUpper THEN RadiusUpper ELSE scaled

(* map_data[COL_CAPACITY_MTPA].mul(20000).clip(lower=5000, upper=80000) *)
Radius(capacity) ==
  LET scaled == (capacity * RadiusScale) \div UnitsPerMtpa
  IN IF scaled < RadiusLower THEN RadiusLower
     ELSE IF scaled > RadiusUpper THEN RadiusUpper
     ELSE scaled

region_colors ==
  ("Asia Pacific" :> <<250, 0, 0, 160>>) @@
  ("Europe" :> <<0, 128, 255, 160>>) @@
  ("Africa" :> <<0, 200, 0, 160>>) @@
  ("North America" :> <<255, 165, 0, 160>>) @@
  ("Middle East" :> <<255, 220, 0, 160>>) @@
  ("Central & South America " :> <<160, 32, 240, 160>>) @@
  ("Eurasia" :> <<255, 105, 180, 160>>)

FallbackColor == <<128, 128, 128, 160>>

(* .map(region_colors).apply(lambda x: x if isinstance(x, list) else [...]) *)
RegionColor(region) ==
  IF region \in DOMAIN region_colors THEN region_colors[region] ELSE FallbackColor

(* rename(columns={lat: 'lat', Longitude: 'lon'}) of one row, with the     *)
(* two columns the map adds; color is NaN until it is assigned             *)
MapRow(r, color) ==
  [owner |-> r.owner, country |-> r.country, region |-> r.region,
   capacity_ttpa |-> r.capacity_ttpa, coordinates |-> r.coordinates,
   Capacity_Mtpa |-> r.Capacity_Mtpa, lat |-> r.lat, lon |-> r.Longitude,
   radius |-> Radius(r.Capacity_Mtpa[1]), color |-> color]

Plottable(r) == ~IsNaN(r.lat) /\ ~IsNaN(r.Longitude) /\ ~IsNaN(r.Capacity_Mtpa)

(* map_data.get("Region", "Unknown") is the Region column, or the string   *)
(* "Unknown" when the table has none; a string has no .map                 *)
ColorError(hasRegion) == IF hasRegion THEN "" ELSE "AttributeError"

Map ==
  /\ pc = "map" /\ run = "running"
  /\ LET rows == SelectSeq(df_filtered, Plottable)
     IN IF rows = <<>>
          THEN /\ map_data' = <<>>
               /\ shown' = shown \cup {"warning_map"}
               /\ pc' = "table"
               /\ UNCHANGED <<run, exception>>
        ELSE IF ColorError(file.hasRegion) # ""
          THEN /\ map_data' = [i \in 1..Len(rows) |-> MapRow(rows[i], NaN)]
               /\ run' = "crashed"
               /\ exception' = ColorError(file.hasRegion)
               /\ UNCHANGED <<pc, shown>>
        ELSE /\ map_data' = [i \in 1..Len(rows) |->
                               MapRow(rows[i], RegionColor(rows[i].region))]
             /\ shown' = shown \cup {"map"}
             /\ pc' = "table"
             /\ UNCHANGED <<run, exception>>
  /\ UNCHANGED <<file, df, min_capacity, max_capacity, selected_companies,
                 selected_countries, capacity_range, df_filtered, total_plants,
                 total_capacity, avg_capacity, unique_countries>>

-----------------------------------------------------------------------------
(* Data table *)

(* df_filtered[table_cols] raises KeyError when a listed column, here      *)
(* 'Region', is not in the table                                           *)
TableError(hasRegion) == IF hasRegion THEN "" ELSE "KeyError"

Table ==
  /\ pc = "table" /\ run = "running"
  /\ IF TableError(file.hasRegion) # ""
       THEN /\ run' = "crashed"
            /\ exception' = TableError(file.hasRegion)
            /\ UNCHANGED <<pc, shown>>
     ELSE /\ shown' = shown \cup {"table"}
          /\ pc' = "done"
          /\ UNCHANGED <<run, exception>>
  /\ UNCHANGED <<file, df, min_capacity, max_capacity, selected_companies,
                 selected_countries, capacity_range, df_filtered, total_plants,
                 total_capacity, avg_capacity, unique_countries, map_data>>

-----------------------------------------------------------------------------
(* Input files *)

PlantRow(owner, country, region, capacity, coordinates) ==
  [owner |-> owner, country |-> country, region |-> region,
   capacity_ttpa |-> capacity, coordinates |-> coordinates]

PlantRows ==
  { PlantRow("ArcelorMittal", "France", "Europe", Str1000, StrLatLon),
    PlantRow("Tata Steel", "India", "Oceania", Str1234, StrOneTwo),
    PlantRow("ArcelorMittal", "India", NoValue, StrUnknown, StrOneTwo),
    PlantRow("Tata Steel", "France", "Africa", StrTenth, StrOneTwo),
    PlantRow("ArcelorMittal", "France", "Europe", Str10000, StrOneTwo),
    PlantRow("Tata Steel", "India", "Europe", Str1000, StrBad),
    PlantRow("ArcelorMittal", "India", "Europe", Str1000, StrOneB),
    PlantRow("Tata Steel", "France", "Europe", Str1000, StrThree),
    PlantRow("ArcelorMittal", "France", "Europe", Str1000, <<>>) }

Tables == UNION {[1..n -> PlantRows] : n \in 0..MaxRows}

WithoutRegion(rows) ==
  [i \in 1..Len(rows) |->
     PlantRow(rows[i].owner, rows[i].country, NoValue,
              rows[i].capacity_ttpa, rows[i].coordinates)]

Files ==
  {[status |-> "ok", hasRegion |-> TRUE, rows |-> t] : t \in Tables}
  \cup {[status |-> "ok", hasRegion |-> FALSE, rows |-> WithoutRegion(t)] : t \in Tables}
  \cup {[status |-> s, hasRegion |-> TRUE, rows |-> <<>>] : s \in {"missing", "unreadable"}}

Init ==
  /\ file \in Files
  /\ pc = "load"
  /\ run = "running"
  /\ exception = ""
  /\ shown = {}
  /\ df = <<>>
  /\ min_capacity = NaN
  /\ max_capacity = NaN
  /\ selected_companies = {}
  /\ selected_countries = {}
  /\ capacity_range = <<0, 0>>
  /\ df_filtered = <<>>
  /\ total_plants = 0
  /\ total_capacity = NaN
  /\ avg_capacity = NaN
  /\ unique_countries = 0
  /\ map_data = <<>>

Next == LoadData \/ Filters \/ ApplyFilters \/ Kpis \/ Map \/ Table

Spec == Init /\ [][Next]_vars

-----------------------------------------------------------------------------
(* Positions of a run *)

StageNo(stage) ==
  CASE stage = "load" -> 0 [] stage = "controls" -> 1 [] stage = "filter" -> 2
    [] stage = "kpi" -> 3 [] stage = "map" -> 4 [] stage = "table" -> 5
    [] stage = "done" -> 6

LoadAttempted == StageNo(pc) >= 1 \/ run # "running"

ControlsDone == StageNo(pc) >= 2

FilterApplied == StageNo(pc) >= 3 \/ (pc = "filter" /\ run = "stopped")

KpisComputed == StageNo(pc) >= 4

MapAttempted == StageNo(pc) >= 5 \/ (pc = "map" /\ run = "crashed")

PassEnded == pc = "done" \/ run # "running"

Views == {"metrics", "map", "table"}

Present(t) == {i \in 1..Len(t) : ~IsNaN(t[i].Capacity_Mtpa)}

Abs(x) == IF x < 0 THEN -x ELSE x

(* x is num / den rounded to 2 decimals: a whole number of Cents at most   *)
(* half a Cent away                                                        *)
IsRounded2(x, num, den) ==
  /\ x % Cent = 0
  /\ 2 * Abs(x * den - num) <= den * Cent

-----------------------------------------------------------------------------
(* C1: the filtered subset is exactly the rows of the cleaned table that   *)
(* pass (no owner selected or owner selected) and (no country selected or  *)
(* country selected) and (capacity null or min <= capacity <= max); a row  *)
(* at either end of the range is kept, a null-capacity row is never        *)
(* removed by the range.                                                   *)
C1_Keep(r) ==
  /\ selected_companies = {} \/ r.owner \in selected_companies
  /\ selected_countries = {} \/ r.country \in selected_countries
  /\ \/ IsNaN(r.Capacity_Mtpa)
     \/ capacity_range[1] <= r.Capacity_Mtpa[1] /\ r.Capacity_Mtpa[1] <= capacity_range[2]

C1_FilterContract == FilterApplied => df_filtered = SelectSeq(df, C1_Keep)

C1_Witness ==
  /\ FilterApplied
  /\ Len(df_filtered) < Len(df)
  /\ \E i \in 1..Len(df_filtered) :
       /\ ~IsNaN(df_filtered[i].Capacity_Mtpa)
       /\ df_filtered[i].Capacity_Mtpa[1] \in {capacity_range[1], capacity_range[2]}

(* C2: load_and_clean_data returns, for every input table, exactly the     *)
(* rows whose coordinate string splits on ", " into two parts that both    *)
(* parse as numbers; malformed strings become null and never raise, and    *)
(* every cleaned row has latitude and longitude.                           *)
C2_WellFormed(r) ==
  /\ r.coordinates # <<>>
  /\ LET parts == Split(r.coordinates, Separator)
     IN /\ Len(parts) = 2
        /\ ~IsNaN(ToNumeric(parts[1]))
        /\ ~IsNaN(ToNumeric(parts[2]))

C2_CleanedExactly ==
  (file.status = "ok" /\ LoadAttempted) =>
    /\ run # "crashed" \/ pc # "load"
    /\ LET kept == SelectSeq(file.rows, C2_WellFormed)
       IN /\ Len(df) = Len(kept)
          /\ \A i \in 1..Len(df) :
               /\ df[i].coordinates = kept[i].coordinates
               /\ df[i].owner = kept[i].owner
               /\ df[i].capacity_ttpa = kept[i].capacity_ttpa
               /\ ~IsNaN(df[i].lat) /\ ~IsNaN(df[i].Longitude)

(* C3: when the source file does not exist or cannot be read, the pass     *)
(* shows an error message and halts without any control or view, and does  *)
(* not end in an unhandled error.                                          *)
C3_LoadFailureHalts ==
  (file.status # "ok" /\ LoadAttempted) =>
    /\ run = "stopped"
    /\ "error_file" \in shown
    /\ shown \cap (Views \cup {"filters"}) = {}

(* C4: when the filters match no row, the "no matching rows" message is    *)
(* shown and the pass stops: metrics, map and table are never rendered     *)
(* from an empty filtered subset.                                          *)
C4_EmptyStops ==
  (FilterApplied /\ df_filtered = <<>>) =>
    /\ run = "stopped" /\ pc = "filter"
    /\ "error_empty" \in shown
    /\ shown \cap Views = {}

C4_Witness ==
  /\ FilterApplied /\ df_filtered = <<>> /\ df # <<>>
  /\ "error_empty" \in shown

(* C5: when the filtered subset is non-empty but has no row with a         *)
(* capacity, the pass runs to its end: the map is replaced by a warning,   *)
(* the metrics panel and the data table are rendered.                      *)
C5_MapWarningOnly ==
  (FilterApplied /\ df_filtered # <<>> /\ Present(df_filtered) = {} /\ PassEnded) =>
    /\ pc = "done" /\ run = "running"
    /\ {"metrics", "warning_map", "table"} \subseteq shown
    /\ "map" \notin shown

(* C6: total_count is the number of filtered rows, null capacities         *)
(* included; total_capacity is the sum of the non-null capacities and      *)
(* average_capacity their mean (divided by the number of non-null rows),   *)
(* each rounded to 2 decimals; [1.0, 2.0, null, 3.0] gives 6.00, 2.00, 4.  *)
RECURSIVE C6_SumOver(_, _)
C6_SumOver(t, S) ==
  IF S = {} THEN 0
  ELSE LET i == CHOOSE j \in S : TRUE
       IN t[i].Capacity_Mtpa[1] + C6_SumOver(t, S \ {i})

C6_Example ==
  << [Capacity_Mtpa |-> <<UnitsPerMtpa>>], [Capacity_Mtpa |-> <<2 * UnitsPerMtpa>>],
     [Capacity_Mtpa |-> NaN], [Capacity_Mtpa |-> <<3 * UnitsPerMtpa>>] >>

C6_Metrics ==
  /\ KpisComputed =>
       LET S == Present(df_filtered)
           sum == C6_SumOver(df_filtered, S)
       IN /\ total_plants = Len(df_filtered)
          /\ ~IsNaN(total_capacity) /\ IsRounded2(total_capacity[1], sum, 1)
          /\ S # {} => /\ ~IsNaN(avg_capacity)
                       /\ IsRounded2(avg_capacity[1], sum, Cardinality(S))
  /\ KpiTotalCapacity(C6_Example) = <<6 * UnitsPerMtpa>>
  /\ KpiAvgCapacity(C6_Example) = <<2 * UnitsPerMtpa>>
  /\ Len(C6_Example) = 4

C6_Witness ==
  /\ KpisComputed
  /\ Present(df_filtered) # {}
  /\ Present(df_filtered) # 1..Len(df_filtered)
  /\ avg_capacity = total_capacity

(* C7: the map gets exactly the filtered rows with a capacity, each with   *)
(* radius clamp(capacity * 20000, 5000, 80000), so every radius is in      *)
(* [5000, 80000]; 0.0001 gives 5000, 1.0 gives 20000, 10 gives 80000.      *)
C7_Clamp(capacity, radius) ==
  LET scaled == capacity * 20000
  IN /\ 5000 <= radius /\ radius <= 80000
     /\ scaled < 5000 * UnitsPerMtpa => radius = 5000
     /\ scaled > 80000 * UnitsPerMtpa => radius = 80000
     /\ (5000 * UnitsPerMtpa <= scaled /\ scaled <= 80000 * UnitsPerMtpa)
          => radius * UnitsPerMtpa = scaled

C7_MarkerRadius ==
  /\ MapAttempted =>
       LET S == Present(df_filtered)
       IN /\ Len(map_data) = Cardinality(S)
          /\ \A i \in 1..Len(map_data) :
               LET k == CHOOSE j \in S : Cardinality({l \in S : l < j}) = i - 1
               IN /\ map_data[i].coordinates = df_filtered[k].coordinates
                  /\ map_data[i].owner = df_filtered[k].owner
                  /\ map_data[i].Capacity_Mtpa = df_filtered[k].Capacity_Mtpa
                  /\ C7_Clamp(df_filtered[k].Capacity_Mtpa[1], map_data[i].radius)
  /\ Radius(1) = 5000
  /\ Radius(UnitsPerMtpa) = 20000
  /\ Radius(10 * UnitsPerMtpa) = 80000

C7_Witness ==
  /\ "map" \in shown
  /\ Len(map_data) < Len(df_filtered)
  /\ \E i \in 1..Len(map_data) :
       /\ map_data[i].radius = 5000
       /\ map_data[i].Capacity_Mtpa[1] * 20000 < 5000 * UnitsPerMtpa

(* C8: every map row gets the palette colour of its region when the region *)
(* is a key of the palette, and the fallback colour [128,128,128,160] when *)
(* the region is null, the table has no region field, or the region is no  *)
(* key of the palette; colour assignment never fails.                      *)
C8_MarkerColor ==
  (MapAttempted /\ Present(df_filtered) # {}) =>
    /\ run # "crashed" \/ pc # "map"
    /\ \A i \in 1..Len(map_data) :
         IF file.hasRegion /\ map_data[i].region \in DOMAIN region_colors
           THEN map_data[i].color = region_colors[map_data[i].region]
         ELSE map_data[i].color = <<128, 128, 128, 160>>

(* C9: the range control is bounded by the minimum and maximum non-null    *)
(* capacity of the full cleaned table, each rounded to 2 decimals; when    *)
(* the cleaned table has no capacity at all, a warning is shown, the range *)
(* is (0, 0), the pass does not fail and the range removes no row.         *)
C9_InSelections(r) ==
  /\ selected_companies = {} \/ r.owner \in selected_companies
  /\ selected_countries = {} \/ r.country \in selected_countries

C9_RangeControl ==
  ControlsDone =>
    LET S == Present(df)
        caps == {df[i].Capacity_Mtpa[1] : i \in S}
    IN IF S # {}
         THEN /\ \E lo \in caps : /\ \A c \in caps : lo <= c
                                  /\ ~IsNaN(min_capacity)
                                  /\ IsRounded2(min_capacity[1], lo, 1)
              /\ \E hi \in caps : /\ \A c \in caps : c <= hi
                                  /\ ~IsNaN(max_capacity)
                                  /\ IsRounded2(max_capacity[1], hi, 1)
              /\ min_capacity[1] <= capacity_range[1]
              /\ capacity_range[1] <= capacity_range[2]
              /\ capacity_range[2] <= max_capacity[1]
              /\ "warning_capacity" \notin shown
       ELSE /\ "warning_capacity" \in shown
            /\ capacity_range = <<0, 0>>
            /\ ~(run = "crashed" /\ pc \in {"controls", "filter"})
            /\ FilterApplied => df_filtered = SelectSeq(df, C9_InSelections)

C9_Witness ==
  /\ FilterApplied
  /\ df # <<>> /\ Present(df) = {}
  /\ df_filtered # <<>>
  /\ "warning_capacity" \in shown

(* C10: with the range left at its default (round2(min), round2(max)) and  *)
(* no owner or country restriction, the filtered subset is the whole       *)
(* cleaned table.                                                          *)
C10_DefaultRangeKeepsAll ==
  ( /\ FilterApplied
    /\ selected_companies = {} /\ selected_countries = {}
    /\ ~IsNaN(min_capacity)
    /\ capacity_range = <<min_capacity[1], max_capacity[1]>> )
  => df_filtered = df

====
